---- MODULE Spec2Model ----
(***************************************************************************)
(* Education-Music: the request gateway (api.py), the scene pipeline       *)
(* (pipeline.py) and the generators and media operations it calls          *)
(* (call_llm.py, image_generator.py, tts_generator.py, video_generator.py, *)
(* video_editor.py), as a state machine over worker processes that share   *)
(* one working directory.                                                  *)
(***************************************************************************)
EXTENDS Integers, Sequences, FiniteSets, TLC

\* ---------------------------------------------------------------- bounds
MaxScenes == 3      \* longest script the script service returns
MaxClock == 2       \* wall-clock seconds read by datetime.now()
MaxChunks == 1      \* inline-data chunks of one streaming response
ConcScenes == 1     \* longest script when two processes run side by side
TimeoutPolls == 2   \* the `timeout` of a poll-based job, in poll intervals
MaxProviders == 2   \* longest provider list handed to completion()
MaxRetryArg == 1    \* largest "retry" of a provider in such a list

\* poll ticks followed before the counter saturates
MaxPolls == TimeoutPolls + 1

\* ------------------------------------------------------ program constants
LlmRetry == 3           \* pipeline.py:69   "retry": 3
TtsMaxAttempts == 3     \* tts_generator.py:116
VideoMaxRetries == 3    \* video_generator.py:51

\* Worker processes sharing the working directory; each serves one request.
Procs == {1, 2}

VARIABLES
    args,       \* the entry point of this behaviour and the arguments of its calls
    lib,        \* state of the library function that is called directly
    procs,      \* the worker processes that exist
    faulty,     \* the collaborators that can fail in this behaviour
    longest,    \* the longest script the script service returns in it
    pc,         \* per process: position of its pipeline() call
    api,        \* per process: state of generate_video (api.py)
    loc,        \* per process: local variables of pipeline()
    gen,        \* per process: local variables of the generator being run
    hist,       \* per process: history of the current run
    now,        \* wall clock, seconds
    files       \* working directory: set of [path, content, writers]

vars == <<args, lib, procs, faulty, longest, pc, api, loc, gen, hist, now, files>>

\* ------------------------------------------------------------------ paths
\* A path is [kind, a, b]; kind names the file-name pattern, a and b are the
\* numbers formatted into it.
MkPath(kind, a, b) == [kind |-> kind, a |-> a, b |-> b]
NoPath == MkPath("none", 0, 0)                      \* Python None
ScriptJson == MkPath("script", 0, 0)                \* "script.json"
LastFramePng == MkPath("last_frame", 0, 0)          \* "outputs/images/last_frame.png"
FinalMp4 == MkPath("final", 0, 0)                   \* "outputs/videos/final.mp4"
\* image_generator.py:81-86: <output_path>_<file_index><ext>, where
\* output_path is outputs/images/image_<index>.png (pipeline.py:98)
ImagePathOverReference(index, file_index) == MkPath("upload", index + 1, file_index)

ImagePath(index, file_index) == MkPath("image", index, file_index)
TtsPath(file_index) == MkPath("tts", file_index, 0)
VeoPath(timestamp, index) == MkPath("veo", timestamp, index)
UploadPath(p) == MkPath("upload", p, 0)             \* uuid4: unique per request
RefImage == MkPath("reference", 0, 0)               \* an image the caller names
JobOutputPath(fn) == MkPath(fn, 0, 0)               \* output_path of a poll-based job

\* video_path[0].replace(".mp4", "_audio.mp4")
AudioClipPath(path) ==
    IF path.kind = "veo" THEN [path EXCEPT !.kind = "veo_audio"] ELSE path

\* --------------------------------------------------------------- contents
\* What a file holds: who wrote it (run id), for which scene, what kind of
\* artifact, and the identities of everything it was derived from.
RunId(p) == p
ContentId(c) == <<c.owner, c.scene, c.kind>>
MkContent(owner, scene, kind, inputs) ==
    [owner |-> owner, scene |-> scene, kind |-> kind,
     deps |-> UNION {{ContentId(c)} \cup c.deps : c \in inputs}]
NoContent == [owner |-> 0, scene |-> -1, kind |-> "none", deps |-> {}]

Exists(path) == \E e \in files : e.path = path
Read(path) == (CHOOSE e \in files : e.path = path).content
WritersOf(fs, path) == UNION {e.writers : e \in {x \in fs : x.path = path}}
Write(fs, path, content) ==
    {e \in fs : e.path # path}
        \cup {[path |-> path, content |-> content,
               writers |-> WritersOf(fs, path) \cup {content.owner}]}

RECURSIVE WriteAll(_, _, _)
WriteAll(fs, paths, content) ==
    IF paths = <<>> THEN fs
    ELSE WriteAll(Write(fs, Head(paths), content), Tail(paths), content)

\* ------------------------------------------------------------ run records
NoScript == [kind |-> "none", n |-> 0]              \* completion() gave None
BadScript == [kind |-> "bad", n |-> 0]              \* JSON without the two keys
OkScript(n) == [kind |-> "ok", n |-> n]             \* n scenes and a music_prompt
NoneList == [none |-> TRUE, paths |-> <<>>]         \* generate_videos gave None
SomeList(paths) == [none |-> FALSE, paths |-> paths]

LocInit ==
    [images_path |-> NoPath, script |-> NoScript, scenes |-> 0,
     music_prompt |-> FALSE, index |-> 0, video_paths |-> <<>>,
     last_frame |-> NoPath, images |-> <<>>, audio_path |-> <<>>,
     video_path |-> NoneList, retval |-> NoPath]
GenInit ==
    [retry |-> 0, attempt |-> 0, saved_paths |-> <<>>, file_index |-> 0,
     polls |-> 0, sleeps |-> 0, image_bytes |-> NoContent]
HistInit ==
    [entered |-> FALSE, invoked |-> {}, raisedAt |-> "", returned |-> FALSE,
     stageFailed |-> FALSE, httpExc |-> FALSE,
     concatCalled |-> FALSE, concatArg |-> <<>>,
     merged |-> {}, emptyImages |-> {}, gaveUp |-> ""]
NoResponse ==
    [status |-> 0, ok |-> FALSE, detail |-> "", video_path |-> NoPath,
     video_url |-> [mount |-> "", rel |-> NoPath]]
ApiInit == [req |-> "none", resp |-> NoResponse, static |-> NoPath]

SceneStages == {"image", "audio", "video", "mux", "frame"}

\* h with the operation op recorded as invoked in this run
Invoke(h, op) == [h EXCEPT !.invoked = @ \cup {op}]

\* An exception raised at `stage` leaves pipeline(): the call is over and
\* nothing is returned.  ops: the operations invoked by the failing step.
Raise(p, stage, ops) ==
    /\ pc' = [pc EXCEPT ![p] = "Failed"]
    /\ hist' = [hist EXCEPT ![p].raisedAt = stage, ![p].invoked = @ \cup ops]

\* The collaborators of the pipeline.  A behaviour has one of them
\* misbehaving (or none): its calls can raise or deliver less than asked.
FaultClasses == {"gateway", "llm", "image", "tts", "video", "media"}

\* The outcomes of a call to collaborator c: it succeeds (TRUE) or, when c
\* can fail, raises (FALSE).
Outcomes(c) == IF c \in faulty THEN BOOLEAN ELSE {TRUE}

\* The number of items a stream of collaborator c delivers: exactly max, or
\* any number up to max when c can fail.
Counts(c, max) == IF c \in faulty THEN 0..max ELSE {max}

\* The arguments of the calls of a behaviour.  fn: the function that is
\* entered; max_retries: generate_videos' parameter (video_generator.py:51);
\* timeout: the poll loops' parameter, in poll intervals; providers: the
\* provider list of completion / stream_completion; module: the module that
\* is loaded.  The gateway passes none of them: the defaults apply.
DefaultArgs ==
    [fn |-> "generate_video", max_retries |-> VideoMaxRetries,
     timeout |-> TimeoutPolls, providers |-> <<>>, module |-> ""]

\* No library function is called directly.
LibInit ==
    [pos |-> "none", i |-> 0, retry |-> 0, n |-> 0, elapsed |-> 0,
     polls |-> 0, downloads |-> 0, last |-> "", log |-> <<>>, out |-> ""]

\* ----------------------------------------------------------------- Init
Init ==
    /\ args = DefaultArgs
    /\ lib = LibInit
    /\ procs = {1}
    /\ \E c \in FaultClasses : faulty = {c}
    /\ longest = MaxScenes
    /\ pc = [p \in Procs |-> "Idle"]
    /\ api = [p \in Procs |-> ApiInit]
    /\ loc = [p \in Procs |-> LocInit]
    /\ gen = [p \in Procs |-> GenInit]
    /\ hist = [p \in Procs |-> HistInit]
    /\ now = 0
    /\ files = {}

\* Two worker processes serve requests side by side in one directory.
InitConc ==
    /\ args = DefaultArgs
    /\ lib = LibInit
    /\ procs = Procs
    /\ faulty = {}
    /\ longest = ConcScenes
    /\ pc = [p \in Procs |-> "Idle"]
    /\ api = [p \in Procs |-> ApiInit]
    /\ loc = [p \in Procs |-> LocInit]
    /\ gen = [p \in Procs |-> GenInit]
    /\ hist = [p \in Procs |-> HistInit]
    /\ now = 0
    /\ files = {}

\* ------------------------------------------------------- gateway (api.py)
\* os.path.relpath(output_path, "outputs") under the "/static" mount
VideoUrl(output_path) == [mount |-> "/static", rel |-> output_path]

ErrorResponse(status, detail) ==
    [NoResponse EXCEPT !.status = status, !.detail = detail]
OkResponse(output_path) ==
    [status |-> 200, ok |-> TRUE, detail |-> "", video_path |-> output_path,
     video_url |-> VideoUrl(output_path)]

\* api.py:279-296: the response of the try block around run_pipeline.
\* raised: pipeline() raised; output_path: what it returned; exists: whether
\* that file exists.
PipelineResponseWrapAll(raised, output_path, exists) ==
    IF raised \/ output_path = NoPath \/ ~exists
    THEN ErrorResponse(500, "Loi chay pipeline")
    ELSE OkResponse(output_path)

PipelineResponse(raised, output_path, exists) ==
    IF raised THEN ErrorResponse(500, "Loi chay pipeline")
    ELSE IF output_path = NoPath \/ ~exists
         THEN ErrorResponse(500, "Pipeline khong tra ve video hop le")
         ELSE OkResponse(output_path)

\* api.py:256-280: POST /api/generate up to the call of run_pipeline.
\* hasImage: the form carries an upload; stageOk: copying it to
\* outputs/uploads succeeds.
ReceiveRequest(p) ==
    /\ p \in procs
    /\ pc[p] = "Idle"
    /\ api[p].req = "none"
    /\ \E hasImage \in BOOLEAN, stageOk \in Outcomes("gateway") :
        LET image_path == IF hasImage THEN UploadPath(p) ELSE NoPath
        IN  /\ hasImage \/ stageOk
            /\ gen' = [gen EXCEPT ![p] = [GenInit EXCEPT !.retry = LlmRetry]]
            /\ IF stageOk
               THEN /\ api' = [api EXCEPT ![p] =
                                [ApiInit EXCEPT !.req = "running"]]
                    /\ files' = IF hasImage
                                THEN Write(files, image_path,
                                           MkContent(RunId(p), -1, "upload", {}))
                                ELSE files
                    /\ loc' = [loc EXCEPT ![p] =
                                [LocInit EXCEPT !.images_path = image_path]]
                    /\ hist' = [hist EXCEPT ![p] =
                                 [HistInit EXCEPT !.entered = TRUE]]
                    /\ pc' = [pc EXCEPT ![p] = "ScriptPending"]
               ELSE /\ api' = [api EXCEPT ![p] =
                                [ApiInit EXCEPT
                                    !.req = "responded",
                                    !.resp = ErrorResponse(400, "Loi luu anh upload")]]
                    /\ loc' = [loc EXCEPT ![p] = LocInit]
                    /\ hist' = [hist EXCEPT ![p] =
                                 [HistInit EXCEPT !.stageFailed = TRUE]]
                    /\ UNCHANGED <<pc, files>>
    /\ UNCHANGED <<args, lib, procs, faulty, longest, now>>

\* api.py:280-296: run_pipeline has returned or raised; map it to a response.
Respond(p) ==
    /\ p \in procs
    /\ api[p].req = "running"
    /\ pc[p] \in {"Done", "Failed"}
    /\ LET raised == pc[p] = "Failed"
           output_path == loc[p].retval
           r == PipelineResponse(raised, output_path, Exists(output_path))
       IN  /\ api' = [api EXCEPT ![p].req = "responded", ![p].resp = r]
           /\ hist' = [hist EXCEPT ![p].httpExc =
                        (~raised /\ (output_path = NoPath \/ ~Exists(output_path)))]
    /\ pc' = [pc EXCEPT ![p] = "Idle"]
    /\ UNCHANGED <<args, lib, procs, faulty, longest, loc, gen, now, files>>

\* the directory `outputs`, which api.py:25 mounts under /static
UnderOutputs(path) ==
    path.kind \in {"upload", "image", "tts", "veo", "veo_audio", "last_frame", "final"}

\* api.py:25: GET /static/<path> answered by StaticFiles(directory="outputs")
\* with the file at outputs/<path>.  generate_video is a coroutine that calls
\* run_pipeline synchronously, so a process answers no other request while
\* its pipeline runs.  One such request per process is followed, before or
\* after the request it serves.
StaticGet(p) ==
    /\ p \in procs
    /\ api[p].req # "running"
    /\ api[p].static = NoPath
    /\ \E e \in files :
        /\ UnderOutputs(e.path)
        /\ api' = [api EXCEPT ![p].static = e.path]
    /\ UNCHANGED <<args, lib, procs, faulty, longest, pc, loc, gen, hist, now, files>>

\* ---------------------------------------------- script (pipeline.py:54-93)
\* call_llm.py:136, 264: `if retry <= 0`, the end of the retry recursion of
\* __call_openai and __call_gemini
RetryExhaustedAtZero(retry) == retry = 0

RetryExhausted(retry) == retry <= 0

\* call_llm.py:190-281, one attempt of __call_gemini for the single provider
\* of generate_script.  media_urls is [images_path]: upload_to_gemini(None)
\* raises, so without a reference image every attempt fails.  A failed
\* attempt with retry <= 0 returns (False, None, error, None); completion()
\* (call_llm.py:502-509) raises on it, catches its own exception and returns
\* (None, None).
CallGemini(p) ==
    /\ p \in procs
    /\ pc[p] = "ScriptPending"
    /\ \E outcome \in (IF loc[p].images_path = NoPath \/ ~Exists(loc[p].images_path)
                        THEN {"fail"}
                        ELSE IF "llm" \in faulty THEN {"ok", "bad", "fail"}
                             ELSE {"ok"}),
          n \in 0..longest :
        /\ (outcome # "ok") => n = 0
        /\ IF outcome = "fail"
           THEN IF RetryExhausted(gen[p].retry)
                THEN /\ loc' = [loc EXCEPT ![p].script = NoScript]
                     /\ pc' = [pc EXCEPT ![p] = "SaveScript"]
                     /\ gen' = [gen EXCEPT ![p] = GenInit]
                ELSE /\ gen' = [gen EXCEPT ![p].retry = @ - 1]
                     /\ UNCHANGED <<loc, pc>>
           ELSE /\ loc' = [loc EXCEPT ![p].script =
                            IF outcome = "ok" THEN OkScript(n) ELSE BadScript]
                /\ pc' = [pc EXCEPT ![p] = "SaveScript"]
                /\ gen' = [gen EXCEPT ![p] = GenInit]
    /\ hist' = [hist EXCEPT ![p] = Invoke(@, "llm")]
    /\ UNCHANGED <<args, lib, procs, faulty, longest, api, now, files>>

\* script["scence_script"] and script["music_prompt"] can be read
ScriptUsableAlways(script) == TRUE

ScriptUsable(script) == script.kind = "ok"

\* pipeline.py:86-93: dump the script to script.json, take the scenes and the
\* music prompt out of it, initialise the loop variables.
SaveScript(p) ==
    /\ p \in procs
    /\ pc[p] = "SaveScript"
    /\ files' = Write(files, ScriptJson, MkContent(RunId(p), -1, "script", {}))
    /\ IF ScriptUsable(loc[p].script)
       THEN /\ loc' = [loc EXCEPT ![p].scenes = loc[p].script.n,
                                  ![p].music_prompt = TRUE,
                                  ![p].video_paths = <<>>,
                                  ![p].last_frame = NoPath,
                                  ![p].index = 0]
            /\ pc' = [pc EXCEPT ![p] =
                        IF loc[p].script.n = 0 THEN "Concat" ELSE "Image"]
            /\ hist' = hist
       ELSE /\ Raise(p, "script", {})
            /\ loc' = loc
    /\ UNCHANGED <<args, lib, procs, faulty, longest, api, gen, now>>

\* ------------------------------------------- scene loop (pipeline.py:95-110)
Min(a, b) == IF a < b THEN a ELSE b

\* paths image_<index>.png_<file_index>.png for file_index 0..k-1
ImagePaths(index, k) == [j \in 1..k |-> ImagePath(index, j - 1)]

\* pipeline.py:96-98 and image_generator.py:40-94: generate_images for the
\* scene at `index`.  image_bytes is bound only when images_path is given
\* (image_generator.py:41-45); the stream saves k images or raises.
GenerateImages(p) ==
    /\ p \in procs
    /\ pc[p] = "Image"
    /\ LET index == loc[p].index
           ref == loc[p].images_path
       IN  IF ref = NoPath \/ ~Exists(ref)
           THEN /\ Raise(p, "image", {"image"})
                /\ UNCHANGED <<loc, gen, files>>
           ELSE \E k \in Counts("image", 1), ok \in Outcomes("image") :
                LET saved == ImagePaths(index, k)
                    content == MkContent(RunId(p), index, "image", {Read(ref)})
                IN  /\ files' = WriteAll(files, saved, content)
                    /\ IF ok
                       THEN /\ loc' = [loc EXCEPT ![p].images = saved]
                            /\ gen' = [gen EXCEPT ![p].attempt = 1,
                                                  ![p].saved_paths = <<>>,
                                                  ![p].file_index = 0]
                            /\ pc' = [pc EXCEPT ![p] = "TTS"]
                            /\ hist' = [hist EXCEPT ![p] =
                                 [Invoke(@, "image") EXCEPT !.emptyImages =
                                     IF k = 0 THEN @ \cup {index} ELSE @]]
                       ELSE /\ Raise(p, "image", {"image"})
                            /\ UNCHANGED <<loc, gen>>
    /\ UNCHANGED <<args, lib, procs, faulty, longest, api, now>>

\* paths tts_output_<file_index>.wav for k chunks from file_index on
TtsPaths(file_index, k) == [j \in 1..k |-> TtsPath(file_index + j - 1)]

\* What generate_tts hands back after the attempt that succeeded
\* (tts_generator.py:113, 147, 169): saved_paths is created once, before the
\* retry loop, and every attempt appends to it.
TtsResult(saved_before, saved_now) == saved_before \o saved_now

\* pipeline.py:99-100 and tts_generator.py:113-169: one attempt of the retry
\* loop of generate_tts.  The stream saves k chunks, then ends (ok) or raises.
\* The call site passes output_path=, a keyword the signature
\* (tts_generator.py:81-89) does not declare: the call as written raises
\* TypeError before the body runs (bound = FALSE).  Both outcomes of the call
\* are kept in every behaviour, so that the lines after it are analysed too,
\* with the body's declared defaults (output_dir "outputs/audio",
\* output_prefix "tts_output").
GenerateTts(p) ==
    /\ p \in procs
    /\ pc[p] = "TTS"
    /\ \E bound \in BOOLEAN, k \in Counts("tts", MaxChunks),
          ok \in Outcomes("tts") :
        LET attempt == gen[p].attempt
            saved == TtsPaths(gen[p].file_index, k)
            content == MkContent(RunId(p), loc[p].index, "audio", {})
            result == TtsResult(gen[p].saved_paths, saved)
        IN  /\ ~bound => (attempt = 1 /\ k = 0 /\ ~ok)
            /\ files' = WriteAll(files, saved, content)
            /\ IF ok
               THEN /\ loc' = [loc EXCEPT ![p].audio_path = result]
                    /\ gen' = [gen EXCEPT ![p] = GenInit]
                    /\ pc' = [pc EXCEPT ![p] = "Video"]
                    /\ hist' = [hist EXCEPT ![p] = Invoke(@, "tts")]
               ELSE IF bound /\ attempt < TtsMaxAttempts
                    THEN /\ gen' = [gen EXCEPT ![p].attempt = attempt + 1,
                                               ![p].saved_paths = result,
                                               ![p].file_index = @ + k]
                         /\ hist' = [hist EXCEPT ![p] = Invoke(@, "tts")]
                         /\ UNCHANGED <<loc, pc>>
                    ELSE /\ pc' = [pc EXCEPT ![p] = "Failed"]
                         /\ hist' = [hist EXCEPT ![p] =
                              [Invoke(@, "tts") EXCEPT
                                  !.raisedAt = "audio",
                                  !.gaveUp = IF bound THEN "audio" ELSE @]]
                         /\ UNCHANGED <<loc, gen>>
    /\ UNCHANGED <<args, lib, procs, faulty, longest, api, now>>

\* Where a callee of pipeline() returns to: the next line of pipeline(), or
\* the caller of the behaviour when the callee itself was the entry point.
AfterCall(fn, next) == IF args.fn = fn THEN "Returned" ELSE next

\* The image that seeds the video of the scene at `index`
\* (pipeline.py:101-104): images[0] for the first scene, the last frame of
\* the previous clip for every later one.
SeedPath(index, images, last_frame) ==
    IF index = 0
    THEN IF images = <<>> THEN NoPath ELSE images[1]
    ELSE last_frame

\* pipeline.py:101-104 and video_generator.py:58-69: the call of
\* generate_videos up to its retry loop.  images[0] raises IndexError on an
\* empty list; the seed file is read once, before the first attempt.  With
\* max_retries < 1 the range of the loop is empty and None is returned.
GenerateVideosStart(p) ==
    /\ p \in procs
    /\ pc[p] = "Video"
    /\ LET index == loc[p].index
           seed == SeedPath(index, loc[p].images, loc[p].last_frame)
       IN  IF (index = 0 /\ loc[p].images = <<>>) \/ (seed # NoPath /\ ~Exists(seed))
           THEN /\ Raise(p, "video", IF index = 0 /\ loc[p].images = <<>>
                                        THEN {} ELSE {"video"})
                /\ gen' = gen
                /\ loc' = loc
           ELSE IF args.max_retries >= 1
                THEN /\ gen' = [gen EXCEPT ![p].attempt = 1, ![p].polls = 0,
                                   ![p].image_bytes =
                                       IF seed = NoPath THEN NoContent ELSE Read(seed)]
                     /\ pc' = [pc EXCEPT ![p] = "VideoSubmit"]
                     /\ hist' = [hist EXCEPT ![p] = Invoke(@, "video")]
                     /\ loc' = loc
                ELSE /\ loc' = [loc EXCEPT ![p].video_path = NoneList]
                     /\ pc' = [pc EXCEPT ![p] = AfterCall("generate_videos", "Merge")]
                     /\ hist' = [hist EXCEPT ![p] = Invoke(@, "video")]
                     /\ gen' = [gen EXCEPT ![p] = GenInit]
    /\ UNCHANGED <<args, lib, procs, faulty, longest, api, now, files>>

\* video_generator.py:104-114: an attempt raised.  Another attempt follows,
\* after a sleep, while attempt_index < max_retries; after the last one the
\* loop is left without a sleep and
\* generate_videos returns None: last_error is assigned and never used.
VideoAttemptFailedRaises(p) ==
    IF gen[p].attempt < args.max_retries
    THEN /\ gen' = [gen EXCEPT ![p].attempt = @ + 1, ![p].polls = 0,
                               ![p].sleeps = @ + 1]
         /\ pc' = [pc EXCEPT ![p] = "VideoSubmit"]
         /\ UNCHANGED <<loc, hist>>
    ELSE /\ Raise(p, "video", {})
         /\ UNCHANGED <<loc, gen>>

VideoAttemptFailed(p) ==
    IF gen[p].attempt < args.max_retries
    THEN /\ gen' = [gen EXCEPT ![p].attempt = @ + 1, ![p].polls = 0,
                               ![p].sleeps = @ + 1]
         /\ pc' = [pc EXCEPT ![p] = "VideoSubmit"]
         /\ UNCHANGED <<loc, hist>>
    ELSE /\ loc' = [loc EXCEPT ![p].video_path = NoneList]
         /\ pc' = [pc EXCEPT ![p] = AfterCall("generate_videos", "Merge")]
         /\ gen' = [gen EXCEPT ![p] = GenInit]
         /\ hist' = [hist EXCEPT ![p].gaveUp = "video"]

\* video_generator.py:72-77: submit the generation job.
VideoSubmit(p) ==
    /\ p \in procs
    /\ pc[p] = "VideoSubmit"
    /\ \E ok \in Outcomes("video") :
        IF ok
        THEN /\ pc' = [pc EXCEPT ![p] = "VideoPoll"]
             /\ UNCHANGED <<loc, gen, hist>>
        ELSE VideoAttemptFailed(p)
    /\ UNCHANGED <<args, lib, procs, faulty, longest, api, now, files>>

\* video_generator.py:79-82: the operation is not done: sleep
\* poll_interval_sec, fetch it again.  The loop has no deadline.
VideoPollPending(p) ==
    /\ p \in procs
    /\ pc[p] = "VideoPoll"
    /\ \E ok \in Outcomes("video") :
        IF ok
        THEN /\ gen' = [gen EXCEPT ![p].polls = Min(@ + 1, MaxPolls)]
             /\ UNCHANGED <<loc, pc, hist>>
        ELSE VideoAttemptFailed(p)
    /\ UNCHANGED <<args, lib, procs, faulty, longest, api, now, files>>

\* video_generator.py:84-103: the operation is done.  No result or no video
\* raises; otherwise the video is downloaded and saved as
\* veo_<timestamp>_<index>.mp4 and the list of saved paths is returned.
VideoPollDone(p) ==
    /\ p \in procs
    /\ pc[p] = "VideoPoll"
    /\ \E res \in (IF "video" \in faulty
                     THEN {"none", "empty", "video", "download_error"}
                              ELSE {"video"}),
          t \in now..MaxClock :
        IF res = "video"
        THEN LET save_path == VeoPath(t, 0)
                 content == MkContent(RunId(p), loc[p].index, "video",
                                      {gen[p].image_bytes} \ {NoContent})
             IN  /\ now' = t
                 /\ files' = Write(files, save_path, content)
                 /\ loc' = [loc EXCEPT ![p].video_path = SomeList(<<save_path>>)]
                 /\ pc' = [pc EXCEPT ![p] = AfterCall("generate_videos", "Merge")]
                 /\ gen' = [gen EXCEPT ![p] = GenInit]
                 /\ hist' = hist
        ELSE /\ t = now
             /\ VideoAttemptFailed(p)
             /\ UNCHANGED <<now, files>>
    /\ UNCHANGED <<args, lib, procs, faulty, longest, api>>

\* pipeline.py:109: the clip of the scene joins the list behind the clips of
\* the scenes before it.
AppendClipInFront(video_paths, clip) == <<clip>> \o video_paths

AppendClip(video_paths, clip) == Append(video_paths, clip)

\* pipeline.py:106 and video_editor.py:105-180: merge_audio_to_video of
\* video_path[0] and audio_path[0] into video_path[0] with "_audio" added.
\* video_path is None after a failed generate_videos, audio_path may be
\* empty: subscripting either raises.  ffmpeg reads both inputs when it runs.
MergeAudio(p) ==
    /\ p \in procs
    /\ pc[p] = "Merge"
    /\ IF loc[p].video_path.none \/ loc[p].audio_path = <<>>
       THEN /\ Raise(p, "mux", {})
            /\ files' = files
       ELSE LET video == loc[p].video_path.paths[1]
                audio == loc[p].audio_path[1]
                output_path == AudioClipPath(video)
            IN  \E ok \in Outcomes("media") :
                IF ok /\ Exists(video) /\ Exists(audio)
                THEN /\ files' = Write(files, output_path,
                                   MkContent(RunId(p), loc[p].index, "clip",
                                             {Read(video), Read(audio)}))
                     /\ pc' = [pc EXCEPT ![p] = "LastFrame"]
                     /\ hist' = [hist EXCEPT ![p] =
                          [Invoke(@, "mux") EXCEPT !.merged =
                              @ \cup {[scene |-> loc[p].index, clip |-> output_path]}]]
                ELSE /\ Raise(p, "mux", {"mux"})
                     /\ files' = files
    /\ UNCHANGED <<args, lib, procs, faulty, longest, api, loc, gen, now>>

\* pipeline.py:108-110 and video_editor.py:38-102: cut the last frame of the
\* narrated clip into outputs/images/last_frame.png, append the clip to
\* video_paths, move to the next scene; after the last scene, to
\* concat_videos.
ExtractLastFrame(p) ==
    /\ p \in procs
    /\ pc[p] = "LastFrame"
    /\ LET clip == AudioClipPath(loc[p].video_path.paths[1])
       IN  \E ok \in Outcomes("media") :
           IF ok /\ Exists(clip)
           THEN /\ files' = Write(files, LastFramePng,
                              MkContent(RunId(p), loc[p].index, "frame", {Read(clip)}))
                /\ loc' = [loc EXCEPT ![p].last_frame = LastFramePng,
                                      ![p].video_paths = AppendClip(@, clip),
                                      ![p].index = @ + 1,
                                      ![p].images = <<>>,
                                      ![p].audio_path = <<>>,
                                      ![p].video_path = NoneList]
                /\ pc' = [pc EXCEPT ![p] =
                            IF loc[p].index + 1 < loc[p].scenes THEN "Image" ELSE "Concat"]
                /\ hist' = [hist EXCEPT ![p] = Invoke(@, "frame")]
           ELSE /\ Raise(p, "frame", {"frame"})
                /\ UNCHANGED <<loc, files>>
    /\ UNCHANGED <<args, lib, procs, faulty, longest, api, gen, now>>

\* ------------------------------------------------- end of run (pipeline.py:119)
\* the contents of the files at `paths`
ContentsOf(paths) == {Read(paths[i]) : i \in 1..Len(paths)}

\* pipeline.py:119 and video_editor.py:280-330: concat_videos of video_paths
\* into outputs/videos/final.mp4.  An empty list raises ValueError, a failing
\* ffmpeg RuntimeError.  pipeline() ends after the call without a return
\* statement: its caller receives None.
ConcatVideos(p) ==
    /\ p \in procs
    /\ pc[p] = "Concat"
    /\ LET videos == loc[p].video_paths
           called == [hist[p] EXCEPT !.invoked = @ \cup {"concat"},
                                     !.concatCalled = TRUE,
                                     !.concatArg = videos]
       IN  \E ok \in Outcomes("media") :
           IF ok /\ Len(videos) # 0 /\ \A i \in 1..Len(videos) : Exists(videos[i])
           THEN /\ files' = Write(files, FinalMp4,
                              MkContent(RunId(p), -1, "final", ContentsOf(videos)))
                /\ loc' = [loc EXCEPT ![p].retval = NoPath]
                /\ pc' = [pc EXCEPT ![p] = "Done"]
                /\ hist' = [hist EXCEPT ![p] = [called EXCEPT !.returned = TRUE]]
           ELSE /\ pc' = [pc EXCEPT ![p] = "Failed"]
                /\ hist' = [hist EXCEPT ![p] = [called EXCEPT !.raisedAt = "concat"]]
                /\ UNCHANGED <<loc, files>>
    /\ UNCHANGED <<args, lib, procs, faulty, longest, api, gen, now>>

\* ------------------------------------------------------------------- Next
Next ==
    \E p \in Procs :
        \/ ReceiveRequest(p)
        \/ Respond(p)
        \/ StaticGet(p)
        \/ CallGemini(p)
        \/ SaveScript(p)
        \/ GenerateImages(p)
        \/ GenerateTts(p)
        \/ GenerateVideosStart(p)
        \/ VideoSubmit(p)
        \/ VideoPollPending(p)
        \/ VideoPollDone(p)
        \/ MergeAudio(p)
        \/ ExtractLastFrame(p)
        \/ ConcatVideos(p)

Spec == Init /\ [][Next]_vars

SpecConc == InitConc /\ [][Next]_vars

\* ================================================ functions called directly
\* The functions of the repository that no request reaches, or that take
\* arguments the gateway never varies, are entered directly, with arguments
\* drawn from bounded sets.  `args` holds the call, `lib` the callee's state.

\* ---- poll-based jobs (yescale_video_gen.py, audio_generator.py,
\* ---- music_generator.py)
PollFns == {"generate_yescale_video", "generate_audio", "generate_music"}

\* `timeout` in poll intervals: negative, zero (falsy), positive
Timeouts == {-1, 0, TimeoutPolls}

\* the status of a poll after .lower(); "" when the response carries none
Statuses ==
    {"completed", "success", "succeeded", "done", "failed", "error",
     "processing", ""}

\* yescale_video_gen.py:180, audio_generator.py:169, music_generator.py:132
SuccessStatuses(fn) ==
    IF fn = "generate_audio"
    THEN {"completed", "succeeded", "success", "done"}
    ELSE {"completed", "success", "succeeded"}

\* yescale_video_gen.py:190, audio_generator.py:180, music_generator.py:139
FailureStatusesWithEmpty == {"failed", "error", ""}

FailureStatuses == {"failed", "error"}

\* the poll-based function that is running: generate_audio when the module
\* audio_generator is being loaded (audio_generator.py:197)
PollFn == IF args.fn = "load" THEN "generate_audio" ELSE args.fn

\* the function is over: it returned or raised `out`
Finish(out) == [lib EXCEPT !.pos = "done", !.out = out]

\* yescale_video_gen.py:139-169, audio_generator.py:125-151,
\* music_generator.py:100-118: validate the text, submit the job, take the
\* task id out of the answer.
PollSubmit ==
    /\ lib.pos = "submit"
    /\ \E r \in {"ok", "ValueError", "submit_error", "no_task_id"} :
        lib' = IF r = "ok" THEN [lib EXCEPT !.pos = "poll"] ELSE Finish(r)
    /\ UNCHANGED <<args, procs, faulty, longest, pc, api, loc, gen, hist, now, files>>

\* The timeout check of the loop: yescale_video_gen.py:198,
\* audio_generator.py:189, music_generator.py:143.
TimedOutAlways(timeout, elapsed) == elapsed > timeout

TimedOut(timeout, elapsed) == timeout # 0 /\ elapsed > timeout

\* One iteration of the `while True` loop (yescale_video_gen.py:174-201,
\* audio_generator.py:156-192, music_generator.py:122-146).  The request
\* takes dt poll intervals and raises (poll_error) or delivers a status; url:
\* the answer carries the artifact's URL.  The sleep at the end is part of
\* the iteration.  Time is followed up to MaxPolls intervals.
PollFetch ==
    /\ lib.pos = "poll"
    /\ \E dt \in 0..1, r \in Statuses \cup {"poll_error"}, url \in BOOLEAN :
        LET elapsed == Min(lib.elapsed + dt, MaxPolls)
            polled == [lib EXCEPT !.polls = Min(@ + 1, MaxPolls),
                                  !.elapsed = elapsed, !.last = r]
        IN  lib' =
              IF r = "poll_error"
              THEN [polled EXCEPT !.pos = "done", !.out = "poll_error"]
              ELSE IF r \in SuccessStatuses(PollFn)
              THEN IF url THEN [polled EXCEPT !.pos = "download"]
                   ELSE [polled EXCEPT !.pos = "done", !.out = "no_url"]
              ELSE IF r \in FailureStatuses
              THEN [polled EXCEPT !.pos = "done", !.out = "job_failed"]
              ELSE IF TimedOut(args.timeout, elapsed)
              THEN [polled EXCEPT !.pos = "done", !.out = "TimeoutError"]
              ELSE [polled EXCEPT !.elapsed = Min(elapsed + 1, MaxPolls)]
    /\ UNCHANGED <<args, procs, faulty, longest, pc, api, loc, gen, hist, now, files>>

\* _download_video / _download_audio (yescale_video_gen.py:188,
\* audio_generator.py:178, music_generator.py:137): the artifact is fetched
\* and written to the output path, which is returned, or the download raises.
PollDownload ==
    /\ lib.pos = "download"
    /\ \E ok \in BOOLEAN :
        /\ lib' = [Finish(IF ok THEN "returned" ELSE "download_error")
                      EXCEPT !.downloads = @ + 1]
        /\ files' = IF ok
                    THEN Write(files, JobOutputPath(PollFn),
                               MkContent(0, -1, "job", {}))
                    ELSE files
    /\ UNCHANGED <<args, procs, faulty, longest, pc, api, loc, gen, hist, now>>

\* ---- LLMContentGenerator.completion (call_llm.py:425-509)
ProviderNames == {"openai", "gemini", "other"}
KnownProviders == {"openai", "gemini"}

\* provider lists: each entry has a name and a "retry"
ProviderLists ==
    UNION {[1..k -> [name : ProviderNames, retry : (-1)..MaxRetryArg]] :
              k \in 0..MaxProviders}

\* call_llm.py:456-457, 535-536: an empty provider list raises, before the
\* try block, in completion and in stream_completion alike.
LlmStart ==
    /\ lib.pos = "call"
    /\ args.fn \in {"completion", "stream_completion"}
    /\ lib' = IF args.providers = <<>>
              THEN Finish("raised")
              ELSE [lib EXCEPT !.pos = "loop", !.i = 1]
    /\ UNCHANGED <<args, procs, faulty, longest, pc, api, loc, gen, hist, now, files>>

\* call_llm.py:502-509: what completion hands back once no provider is left.
\* `raise Exception(error)` is caught by the function's own except clause.
CompletionExhaustedRaises == "raised"

CompletionExhausted == "none"

\* call_llm.py:461-501: the head of the provider loop of completion.  A known
\* name is called with the provider's retry; any other name is skipped.
CompletionLoop ==
    /\ lib.pos = "loop"
    /\ args.fn = "completion"
    /\ lib' =
         IF lib.i > Len(args.providers)
         THEN Finish(CompletionExhausted)
         ELSE IF args.providers[lib.i].name \in KnownProviders
         THEN [lib EXCEPT !.pos = "attempt",
                          !.retry = args.providers[lib.i].retry,
                          !.n = 0, !.log = Append(@, lib.i)]
         ELSE [lib EXCEPT !.i = @ + 1]
    /\ UNCHANGED <<args, procs, faulty, longest, pc, api, loc, gen, hist, now, files>>

\* call_llm.py:24-150 and 153-281: one attempt of __call_openai /
\* __call_gemini.  Success returns to completion, which returns the
\* response; a failure with retry <= 0 returns (False, ...) and the loop
\* goes on; otherwise the function calls itself with retry - 1.
LlmAttempt ==
    /\ lib.pos = "attempt"
    /\ \E ok \in BOOLEAN :
        lib' = IF ok
               THEN [Finish("response") EXCEPT !.n = @ + 1]
               ELSE IF RetryExhausted(lib.retry)
                    THEN [lib EXCEPT !.pos = "loop", !.i = @ + 1, !.n = @ + 1]
                    ELSE [lib EXCEPT !.retry = @ - 1, !.n = @ + 1]
    /\ UNCHANGED <<args, procs, faulty, longest, pc, api, loc, gen, hist, now, files>>

\* ---- LLMContentGenerator.stream_completion (call_llm.py:511-583)
\* call_llm.py:538-583: the provider loop of stream_completion.  The
\* provider generators (__stream_openai 283-343, __stream_gemini 345-423)
\* catch every exception of their own and yield "Error: ..." instead, so a
\* provider whose stream fails ends normally; stream_completion forwards the
\* chunks and returns (lines 555, 573).  "All providers failed" is raised
\* after the loop and yielded as an error chunk by the outer except clause.
StreamLoop ==
    /\ lib.pos = "loop"
    /\ args.fn = "stream_completion"
    /\ \E ok \in BOOLEAN :
        lib' =
          IF lib.i > Len(args.providers)
          THEN Finish("all_providers_failed")
          ELSE IF args.providers[lib.i].name \in KnownProviders
          THEN [Finish(IF ok THEN "chunks" ELSE "provider_error_chunk")
                   EXCEPT !.log = Append(@, lib.i),
                          !.last = IF ok THEN "ok" ELSE "failed"]
          ELSE [lib EXCEPT !.i = @ + 1]
    /\ UNCHANGED <<args, procs, faulty, longest, pc, api, loc, gen, hist, now, files>>

\* ---- extract_last_frame_to_image (video_editor.py:359-454)
ExtractSteps == {"ensure_ffmpeg", "seek_from_end", "probe", "seek_near_end", "cv2"}

\* without method 2: a failed seek from the end goes to OpenCV
ExtractNextWithoutProbe(step, ok) ==
    CASE step = "ensure_ffmpeg" -> IF ok THEN "seek_from_end" ELSE "cv2"
      [] step = "seek_from_end" -> IF ok THEN "returned" ELSE "cv2"
      [] step = "probe" -> IF ok THEN "seek_near_end" ELSE "cv2"
      [] step = "seek_near_end" -> IF ok THEN "returned" ELSE "cv2"
      [] step = "cv2" -> IF ok THEN "returned" ELSE "raised"

\* What follows a step that succeeded (ok) or failed: _ensure_ffmpeg
\* (372-379), ffmpeg -sseof (383-401), _probe_duration_sec (404-418),
\* ffmpeg -ss near the end (421-454), extract_last_frame_to_image_cv2.
ExtractNext(step, ok) ==
    CASE step = "ensure_ffmpeg" -> IF ok THEN "seek_from_end" ELSE "cv2"
      [] step = "seek_from_end" -> IF ok THEN "returned" ELSE "probe"
      [] step = "probe" -> IF ok THEN "seek_near_end" ELSE "cv2"
      [] step = "seek_near_end" -> IF ok THEN "returned" ELSE "cv2"
      [] step = "cv2" -> IF ok THEN "returned" ELSE "raised"

\* One step of extract_last_frame_to_image; log keeps the steps run and
\* `last` whether the step just run succeeded.
ExtractStep ==
    /\ lib.pos \in ExtractSteps
    /\ \E ok \in BOOLEAN :
        LET next == ExtractNext(lib.pos, ok)
            ran == [lib EXCEPT !.log = Append(@, lib.pos),
                               !.last = IF ok THEN "ok" ELSE "failed"]
        IN  lib' = IF next \in ExtractSteps
                   THEN [ran EXCEPT !.pos = next]
                   ELSE [ran EXCEPT !.pos = "done", !.out = next]
    /\ UNCHANGED <<args, procs, faulty, longest, pc, api, loc, gen, hist, now, files>>

\* ---- module load
Modules == {"api", "pipeline", "video_editor", "audio_generator"}

\* Loading a module runs its top-level statements.  video_editor.py:459
\* calls add_background_audio_to_video; pipeline.py:8 imports video_editor
\* (running that call) and then the name burn_subtitle_text, which
\* video_editor does not define, so the import raises before the pipeline()
\* call of pipeline.py:155 is reached; api.py:9 imports pipeline;
\* audio_generator.py:197 calls generate_audio with its default timeout.
\* resolved: the imports of pipeline.py:4-7 before that of video_editor
\* succeed (call_llm and image_generator live in gemini_service/).
LoadModule ==
    /\ lib.pos = "load"
    /\ \E ok \in BOOLEAN, resolved \in BOOLEAN :
        lib' =
          IF args.module = "audio_generator"
          THEN [lib EXCEPT !.pos = "submit", !.log = Append(@, "generate_audio")]
          ELSE IF args.module # "video_editor" /\ ~resolved
          THEN Finish("import_error")
          ELSE [Finish(IF ok /\ args.module = "video_editor"
                       THEN "loaded" ELSE "import_error")
                   EXCEPT !.log = Append(@, "add_background_audio_to_video")]
    /\ UNCHANGED <<args, procs, faulty, longest, pc, api, loc, gen, hist, now, files>>

\* ---- the calls
\* where the body of fn starts
EntryPos(fn) ==
    CASE fn \in PollFns -> "submit"
      [] fn = "extract_last_frame_to_image" -> "ensure_ffmpeg"
      [] fn = "load" -> "load"
      [] OTHER -> "call"

\* the direct calls that use no state of pipeline()
LibCalls ==
    {[DefaultArgs EXCEPT !.fn = f, !.timeout = t] : f \in PollFns, t \in Timeouts}
    \cup {[DefaultArgs EXCEPT !.fn = f, !.providers = ps] :
             f \in {"completion", "stream_completion"}, ps \in ProviderLists}
    \cup {[DefaultArgs EXCEPT !.fn = "extract_last_frame_to_image"]}
    \cup {[DefaultArgs EXCEPT !.fn = "load", !.module = m] : m \in Modules}

\* the reference image of a direct call, when the caller's file exists
RefFile == [path |-> RefImage, content |-> MkContent(0, -1, "upload", {}),
            writers |-> {}]

\* a library function is called; no pipeline runs
InitCall ==
    /\ \E a \in LibCalls :
        /\ args = a
        /\ lib = [LibInit EXCEPT !.pos = EntryPos(a.fn)]
    /\ faulty = {}
    /\ pc = [p \in Procs |-> "Idle"]
    /\ loc = [p \in Procs |-> LocInit]
    /\ gen = [p \in Procs |-> GenInit]
    /\ hist = [p \in Procs |-> HistInit]
    /\ files = {}

\* pipeline(summary, language, images_path) called directly (as at
\* pipeline.py:155), with or without a reference image
InitPipeline ==
    /\ args = [DefaultArgs EXCEPT !.fn = "pipeline"]
    /\ lib = LibInit
    /\ \E c \in FaultClasses : faulty = {c}
    /\ pc = [p \in Procs |-> IF p = 1 THEN "ScriptPending" ELSE "Idle"]
    /\ \E ref \in {NoPath, RefImage} :
        loc = [p \in Procs |->
                 IF p = 1 THEN [LocInit EXCEPT !.images_path = ref] ELSE LocInit]
    /\ gen = [p \in Procs |->
                IF p = 1 THEN [GenInit EXCEPT !.retry = LlmRetry] ELSE GenInit]
    /\ hist = [p \in Procs |->
                 IF p = 1 THEN [HistInit EXCEPT !.entered = TRUE] ELSE HistInit]
    /\ files = {RefFile}

\* generate_videos(prompt, images_path, max_retries) called directly
\* (video_generator.py:39-52), the image file present or missing
InitGenerateVideos ==
    /\ \E m \in 0..VideoMaxRetries :
        args = [DefaultArgs EXCEPT !.fn = "generate_videos", !.max_retries = m]
    /\ lib = LibInit
    /\ faulty \in {{}, {"video"}}
    /\ pc = [p \in Procs |-> IF p = 1 THEN "Video" ELSE "Idle"]
    /\ loc = [p \in Procs |->
                IF p = 1 THEN [LocInit EXCEPT !.images = <<RefImage>>] ELSE LocInit]
    /\ gen = [p \in Procs |-> GenInit]
    /\ hist = [p \in Procs |-> HistInit]
    /\ files \in {{}, {RefFile}}

InitLib ==
    /\ procs = {1}
    /\ longest = MaxScenes
    /\ api = [p \in Procs |-> ApiInit]
    /\ now = 0
    /\ (InitCall \/ InitPipeline \/ InitGenerateVideos)

NextLib ==
    \/ \E p \in Procs :
        \/ CallGemini(p)
        \/ SaveScript(p)
        \/ GenerateImages(p)
        \/ GenerateTts(p)
        \/ GenerateVideosStart(p)
        \/ VideoSubmit(p)
        \/ VideoPollPending(p)
        \/ VideoPollDone(p)
        \/ MergeAudio(p)
        \/ ExtractLastFrame(p)
        \/ ConcatVideos(p)
    \/ PollSubmit
    \/ PollFetch
    \/ PollDownload
    \/ LlmStart
    \/ CompletionLoop
    \/ LlmAttempt
    \/ StreamLoop
    \/ ExtractStep
    \/ LoadModule

SpecLib == InitLib /\ [][NextLib]_vars


TypeOK ==
    /\ procs \subseteq Procs
    /\ now \in 0..MaxClock
    /\ \A p \in Procs :
        /\ loc[p].index \in 0..MaxScenes
        /\ Len(loc[p].video_paths) <= MaxScenes
        /\ gen[p].polls \in 0..MaxPolls

\* ================================================================ properties
\* the run of p is over: pipeline() returned or raised
RunEnded(p) == hist[p].returned \/ hist[p].raisedAt # ""

\* every scene of the script went through all its steps
AllScenesSucceeded(p) ==
    /\ loc[p].script.kind = "ok"
    /\ loc[p].index = loc[p].scenes
    /\ hist[p].raisedAt \notin SceneStages

\* the scenes of the run of p in which a step raised
FailedScenes(p) ==
    IF hist[p].raisedAt \in SceneStages THEN {loc[p].index} ELSE {}

\* the clip that merge_audio_to_video wrote for scene i, as a set
ClipsOf(p, i) == {m.clip : m \in {x \in hist[p].merged : x.scene = i}}

\* C1: when every scene of a script of N >= 1 scenes succeeds, concat_videos
\* is called with exactly N clips and entry i is the clip produced for
\* scene i.
C1_ClipsInScriptOrder ==
    \A p \in Procs :
        (RunEnded(p) /\ AllScenesSucceeded(p) /\ loc[p].scenes >= 1) =>
            /\ hist[p].concatCalled
            /\ Len(hist[p].concatArg) = loc[p].scenes
            /\ \A i \in 1..loc[p].scenes :
                   ClipsOf(p, i - 1) = {hist[p].concatArg[i]}

C1_Witness ==
    \E p \in Procs :
        /\ hist[p].returned
        /\ loc[p].scenes >= 2
        /\ Len(hist[p].concatArg) >= 2
        /\ hist[p].concatArg[1] # hist[p].concatArg[2]

\* C2: when exactly one scene of a run fails and no other scene does, the
\* run still completes and concat_videos receives the clips of the other
\* scenes in their original order.
C2_FailedSceneDropped ==
    \A p \in Procs :
        (RunEnded(p) /\ Cardinality(FailedScenes(p)) = 1 /\ loc[p].scenes >= 2) =>
            LET k == CHOOSE i \in FailedScenes(p) : TRUE
                Other(j) == IF j - 1 < k THEN j - 1 ELSE j
            IN  /\ hist[p].returned
                /\ hist[p].concatCalled
                /\ Len(hist[p].concatArg) = loc[p].scenes - 1
                /\ \A j \in 1..(loc[p].scenes - 1) :
                       ClipsOf(p, Other(j)) = {hist[p].concatArg[j]}

\* C3: an exception raised by a step of a scene never leaves pipeline().
C3_SceneFailureContained ==
    \A p \in Procs : pc[p] = "Failed" => hist[p].raisedAt \notin SceneStages

\* C4: when script generation yields no script, the run fails and no image,
\* speech or video generator and no assembler operation is invoked in it.
C4_NoSceneWorkWithoutScript ==
    \A p \in Procs :
        ("llm" \in hist[p].invoked /\ loc[p].script.kind = "none"
            /\ pc[p] # "ScriptPending") =>
            /\ hist[p].invoked = {"llm"}
            /\ ~hist[p].returned
            /\ ~hist[p].concatCalled
            /\ pc[p] # "SaveScript" => hist[p].raisedAt = "script"

C4_Witness ==
    \E p \in Procs :
        /\ loc[p].images_path # NoPath
        /\ "llm" \in hist[p].invoked
        /\ loc[p].script.kind = "none"
        /\ pc[p] = "Failed"

\* C5: whenever the pipeline finishes without raising, the response is
\* {ok: true, video_path, video_url} with the final video's path and its
\* /static URL.
C5_SuccessResponse ==
    \A p \in Procs :
        (api[p].req = "responded" /\ hist[p].returned) =>
            api[p].resp = OkResponse(FinalMp4)

\* C6: a run that completes has generated the background track, mixed it
\* under the draft and returned the path of the mixed video.
C6_MusicMixed ==
    \A p \in Procs :
        hist[p].returned =>
            /\ {"music", "mix"} \subseteq hist[p].invoked
            /\ loc[p].retval # NoPath

\* C7: no generator stage keeps polling once `timeout` has elapsed.
C7_PollingStopsAtTimeout ==
    \A p \in Procs : pc[p] = "VideoPoll" => gen[p].polls <= TimeoutPolls

\* C8: runs executing side by side share no file: every file has one writing
\* run and is derived only from files of that run.
C8_RunsIsolated ==
    \A e \in files :
        /\ Cardinality(e.writers) <= 1
        /\ \A d \in e.content.deps : d[1] = e.content.owner

\* the stage of the run state machine a position of pipeline() belongs to
StageOf(position) ==
    CASE position = "Idle" -> "Idle"
      [] position \in {"ScriptPending", "SaveScript"} -> "ScriptPending"
      [] position = "Concat" -> "Concatenating"
      [] position = "Done" -> "Done"
      [] position = "Failed" -> "Failed"
      [] OTHER -> "ScenesRunning"

StageRank(stage) ==
    CASE stage = "Idle" -> 0
      [] stage = "ScriptPending" -> 1
      [] stage = "ScenesRunning" -> 2
      [] stage = "Concatenating" -> 3
      [] stage = "MusicPending" -> 4
      [] stage = "Mixing" -> 5
      [] stage = "Done" -> 6
      [] OTHER -> 7

\* C9: a run moves through Idle, ScriptPending, ScenesRunning, Concatenating,
\* MusicPending, Mixing, Done one stage at a time, or to Failed; a run that
\* is Done or Failed only hands over to the next request.
C9_StageOrder ==
    [][\A p \in Procs :
        LET a == StageOf(pc[p])
            b == StageOf(pc'[p])
        IN  a # b =>
              IF a \in {"Done", "Failed"} THEN b = "Idle"
              ELSE \/ b = "Failed"
                   \/ StageRank(b) = StageRank(a) + 1
                   \/ (a = "ScriptPending" /\ b = "Concatenating"
                          /\ loc'[p].scenes = 0)]_vars

\* C10: a failed upload gives 400 and the pipeline is not entered; an
\* exception of the pipeline gives 500 with the wrapping detail; the
\* HTTPException raised inside the try block arrives unchanged; no failure
\* gives ok: true.
C10_ErrorResponses ==
    \A p \in Procs :
        /\ hist[p].stageFailed =>
              /\ api[p].resp = ErrorResponse(400, "Loi luu anh upload")
              /\ ~hist[p].entered /\ hist[p].invoked = {} /\ pc[p] = "Idle"
        /\ api[p].resp.status = 400 => hist[p].stageFailed
        /\ (api[p].req = "responded" /\ hist[p].raisedAt # "") =>
              api[p].resp = ErrorResponse(500, "Loi chay pipeline")
        /\ (api[p].req = "responded" /\ hist[p].httpExc) =>
              api[p].resp = ErrorResponse(500, "Pipeline khong tra ve video hop le")
        /\ api[p].resp.ok =>
              (hist[p].returned /\ hist[p].raisedAt = "" /\ ~hist[p].stageFailed
                  /\ ~hist[p].httpExc)

C10_Witness ==
    \E p \in Procs :
        /\ api[p].req = "responded"
        /\ hist[p].raisedAt \in SceneStages
        /\ api[p].resp.status = 500

\* every scene of the script of p was attempted and failed
AllScenesFailed(p) ==
    /\ loc[p].script.kind = "ok"
    /\ loc[p].scenes >= 1
    /\ FailedScenes(p) = 0..(loc[p].scenes - 1)

\* C11: when every scene of a script fails, concat_videos is still called,
\* with an empty list, and no final video is written.
C11_AllScenesFailedReachesConcat ==
    \A p \in Procs :
        (RunEnded(p) /\ AllScenesFailed(p)) =>
            /\ hist[p].concatCalled
            /\ hist[p].concatArg = <<>>
            /\ ~Exists(FinalMp4)

\* C12: concat_videos called with no clip or with exactly one clip raises and
\* writes no output file.
C12_ConcatRejectsShortLists ==
    \A p \in Procs :
        (hist[p].concatCalled /\ Len(hist[p].concatArg) <= 1) =>
            /\ hist[p].raisedAt = "concat"
            /\ ~hist[p].returned
            /\ RunId(p) \notin WritersOf(files, FinalMp4)

\* C13: the video of scene i is derived from the image generated for scene i
\* and from no artifact of another scene.
C13_SceneSeededFromOwnImage ==
    \A e \in files :
        e.content.kind = "video" =>
            /\ <<e.content.owner, e.content.scene, "image">> \in e.content.deps
            /\ \A d \in e.content.deps : d[2] \in {-1, e.content.scene}

\* C14: a scene whose image generation returned an empty list yields no clip
\* that reaches concat_videos.
C14_EmptyImagesFailScene ==
    \A p \in Procs :
        \A i \in hist[p].emptyImages :
            ~(/\ hist[p].concatCalled
              /\ \E j \in 1..Len(hist[p].concatArg) :
                     hist[p].concatArg[j] \in ClipsOf(p, i))

\* C15: every clip handed to concat_videos is the output of the subtitle step
\* applied to the narrated clip of its scene.
C15_SubtitledClipsConcatenated ==
    \A p \in Procs :
        (hist[p].concatCalled /\ Len(hist[p].concatArg) >= 1) =>
            /\ "subtitle" \in hist[p].invoked
            /\ \A j \in 1..Len(hist[p].concatArg) :
                   hist[p].concatArg[j].kind = "veo_sub"

\* C16: no step of a run writes to a path that already holds a file.
C16_NoArtifactOverwritten ==
    [][\A e \in files' \ files : ~\E o \in files : o.path = e.path]_vars

\* C17: from the start of a run on, the reference image holds what the
\* gateway stored in it and nothing else has written to its path.
C17_ReferenceImageReadOnly ==
    \A p \in Procs :
        (hist[p].entered /\ loc[p].images_path # NoPath) =>
            /\ Exists(loc[p].images_path)
            /\ Read(loc[p].images_path) = MkContent(RunId(p), -1, "upload", {})
            /\ WritersOf(files, loc[p].images_path) = {RunId(p)}

C17_Witness ==
    \E p \in Procs :
        /\ hist[p].returned
        /\ loc[p].scenes >= 2
        /\ Exists(ImagePath(1, 0))
        /\ Read(ImagePath(1, 0)).deps = {<<RunId(p), -1, "upload">>}
        /\ Read(loc[p].images_path).kind = "upload"

\* the scenes of the run of p whose steps are being executed
InProgress(p) ==
    IF StageOf(pc[p]) = "ScenesRunning" THEN {loc[p].index} ELSE {}

\* the scenes of the run of p whose steps were begun
ScenesStarted(p) == {i \in 0..(loc[p].scenes - 1) : i <= loc[p].index}

\* C18: at most a fixed number of scenes (one) is in progress at any moment,
\* and by the end of the run every scene of the script was processed.
C18_ScenesBoundedAndProcessed ==
    \A p \in Procs :
        /\ Cardinality(InProgress(p)) <= 1
        /\ (RunEnded(p) /\ loc[p].script.kind = "ok") =>
               ScenesStarted(p) = 0..(loc[p].scenes - 1)

\* C19: when the audio or the video generator gives up after its attempts,
\* the exception that leaves pipeline() is the one of that stage.
C19_GeneratorFailureReported ==
    \A p \in Procs :
        hist[p].gaveUp # "" => hist[p].raisedAt = hist[p].gaveUp

\* C20: the only file a client obtains over /static is the final video.
C20_OnlyFinalVideoServed ==
    \A p \in Procs :
        api[p].static # NoPath => api[p].static = FinalMp4

\* C21: the reference image is optional.  A request without an image stages
\* no file and enters the pipeline with no reference image, and while the
\* script service itself works the run does not fail at the script step or
\* at the image step merely because the image is absent.
C21_ReferenceImageOptional ==
    \A p \in Procs :
        (hist[p].entered /\ loc[p].images_path = NoPath) =>
            /\ ~Exists(UploadPath(p))
            /\ ("llm" \notin faulty) => hist[p].raisedAt \notin {"script", "image"}

\* C27: the list generate_tts returns holds only files written during the
\* attempt that succeeded: no path saved by an earlier, failed attempt of the
\* same call is in it.
C27_TtsResultFromSuccessfulAttempt ==
    [][\A p \in Procs :
        (pc[p] = "TTS" /\ pc'[p] = "Video") =>
            \A i \in 1..Len(loc'[p].audio_path) :
                \A j \in 1..Len(gen[p].saved_paths) :
                    loc'[p].audio_path[i] # gen[p].saved_paths[j]]_vars

\* the positions of pipeline() inside generate_videos' retry loop
InVideoAttempt == {"VideoSubmit", "VideoPoll"}

\* the positions at which a call of pipeline() or of a library function is over
Ended == {"Done", "Failed", "Returned"}

\* the order of the steps of one scene in pipeline() (pipeline.py:96-110)
StepRank(pos) ==
    CASE pos = "Image" -> 1
      [] pos = "TTS" -> 2
      [] pos = "Video" -> 3
      [] pos \in InVideoAttempt -> 4
      [] pos = "Merge" -> 5
      [] pos = "Frame" -> 6
      [] OTHER -> 0

\* max(retry, 0) + 1: the attempts a provider call with `retry` may make
MaxAttempts(retry) == IF retry > 0 THEN retry + 1 ELSE 1

Polling == PollFn \in PollFns

\* the poll loop was entered and the function is over
PollLoopEnded == Polling /\ lib.pos = "done" /\ lib.polls >= 1

\* statuses that are neither success nor failure for any of the functions
PendingStatuses == {"", "processing"}

\* C24 as stated: once a job is submitted the poll loop ends in exactly one
\* of three ways: success status, one download, path returned; failed/error
\* status, error raised, no download; timeout, TimeoutError.  Any other
\* status is pending and polled again.
C24_ThreeEndings ==
    [][Polling =>
        /\ PollLoopEnded' =>
            \/ /\ lib'.out = "returned"
               /\ lib'.last \in SuccessStatuses(PollFn)
               /\ lib'.downloads = 1
            \/ /\ lib'.out = "job_failed"
               /\ lib'.last \in FailureStatuses
               /\ lib'.downloads = 0
            \/ lib'.out = "TimeoutError"
        /\ (lib.pos = "poll" /\ lib'.last \in PendingStatuses) =>
               (lib'.pos = "poll" \/ lib'.out = "TimeoutError")
        /\ lib.pos = "done" => lib' = lib]_vars

\* C24, amended: the loop ends in one of these ways: a success status with
\* the artifact's URL, then one download, whose path is returned or whose
\* error is raised; a success status without a URL, an error and no
\* download; a failed/error status, an error, no download; a poll request
\* that fails, its error; the timeout, TimeoutError.  After any of them no
\* further poll is made.  An empty or unknown status is pending: unless the
\* timeout has elapsed, the loop sleeps poll_interval and polls again.
C24_PollLoopEndings ==
    [][Polling =>
        /\ PollLoopEnded' =>
            \/ /\ lib'.out \in {"returned", "download_error"}
               /\ lib'.last \in SuccessStatuses(PollFn)
               /\ lib'.downloads = 1
               /\ lib'.out = "returned" => Exists(JobOutputPath(PollFn))'
            \/ /\ lib'.out = "no_url"
               /\ lib'.last \in SuccessStatuses(PollFn)
               /\ lib'.downloads = 0
            \/ /\ lib'.out = "job_failed"
               /\ lib'.last \in FailureStatuses
               /\ lib'.downloads = 0
            \/ /\ lib'.out = "poll_error"
               /\ lib'.downloads = 0
            \/ /\ lib'.out = "TimeoutError"
               /\ lib'.downloads = 0
        /\ (lib.pos = "poll" /\ lib'.last \in PendingStatuses) =>
            \/ lib'.out = "TimeoutError" /\ lib'.pos = "done"
            \/ /\ lib'.pos = "poll"
               /\ lib'.polls = Min(lib.polls + 1, MaxPolls)
               /\ lib'.elapsed > lib.elapsed \/ lib'.elapsed = MaxPolls
        /\ (lib.pos = "poll" /\ lib'.last \in FailureStatuses) =>
               lib'.out = "job_failed"
        /\ lib.pos = "done" => lib' = lib]_vars

\* a job was polled again after a pending status, then succeeded and its
\* artifact was downloaded once
C24_Witness ==
    /\ Polling
    /\ lib.out = "returned"
    /\ lib.polls >= 2
    /\ lib.downloads = 1

\* C25: TimeoutError is raised only right after a poll with a non-terminal
\* status, and only when timeout is non-zero and the elapsed time exceeds
\* it; a success status after the deadline is still handled (download or
\* missing-URL error), and with timeout = 0 a pending poll always leads to
\* another poll.
C25_TimeoutOnlyAfterPendingPoll ==
    [][Polling =>
        /\ (lib.out = "" /\ lib'.out = "TimeoutError") =>
            /\ lib.pos = "poll"
            /\ lib'.last \notin SuccessStatuses(PollFn) \cup FailureStatuses
                                    \cup {"poll_error"}
            /\ args.timeout # 0
            /\ lib'.elapsed > args.timeout
        /\ (lib.pos = "poll" /\ lib'.last \in SuccessStatuses(PollFn)) =>
               (lib'.pos = "download" \/ lib'.out = "no_url")
        /\ lib.pos = "download" => lib'.out \in {"returned", "download_error"}
        /\ (args.timeout = 0 /\ lib.pos = "poll"
                /\ lib'.last \in PendingStatuses) => lib'.pos = "poll"]_vars

\* a poll reported success after the deadline and the artifact was returned
C25_Witness ==
    /\ Polling
    /\ args.timeout > 0
    /\ lib.elapsed > args.timeout
    /\ lib.out = "returned"

\* the indexes of the providers with a known name before index k
KnownBefore(k) ==
    {j \in 1..Len(args.providers) :
        j < k /\ args.providers[j].name \in KnownProviders}

\* the set of the entries of a sequence
Range(seq) == {seq[j] : j \in 1..Len(seq)}

\* C28: completion calls the providers in list order; the first that
\* succeeds ends the call with its response and no later provider is called;
\* when every listed provider fails or has an unknown name the result is
\* (None, None), not an exception; only an empty list raises.
C28_CompletionProviderOrder ==
    args.fn = "completion" =>
        /\ \A j \in 1..(Len(lib.log) - 1) : lib.log[j] < lib.log[j + 1]
        /\ lib.pos \in {"loop", "done"} /\ lib.out # "response" =>
               Range(lib.log) = KnownBefore(lib.i)
        /\ lib.pos = "attempt" \/ lib.out = "response" =>
               /\ Range(lib.log) = KnownBefore(lib.i) \cup {lib.i}
               /\ lib.log[Len(lib.log)] = lib.i
        /\ lib.pos = "done" =>
               /\ lib.out = "raised" <=> args.providers = <<>>
               /\ lib.out \in {"raised", "response", "none"}
               /\ lib.out = "none" => lib.i = Len(args.providers) + 1

\* the first provider failed on every attempt, the second one answered
C28_Witness ==
    /\ args.fn = "completion"
    /\ lib.out = "response"
    /\ lib.log = <<1, 2>>

\* C29: when the streaming call of a provider fails, stream_completion goes
\* on to the next provider: a stream that ended on a failed provider has
\* tried every provider with a known name, and 'All providers failed' is
\* yielded only after each of them was tried.
C29_StreamFallsBack ==
    (args.fn = "stream_completion" /\ lib.pos = "done"
        /\ (lib.last = "failed" \/ lib.out = "all_providers_failed")) =>
        Range(lib.log) = KnownBefore(Len(args.providers) + 1)

\* the order of the steps of extract_last_frame_to_image
ExtractRank(step) ==
    CASE step = "ensure_ffmpeg" -> 0
      [] step = "seek_from_end" -> 1
      [] step = "probe" -> 2
      [] step = "seek_near_end" -> 3
      [] step = "cv2" -> 4

\* the steps that produce the image
ExtractMethods == {"seek_from_end", "seek_near_end", "cv2"}

C23_NoWorkAtModuleLoad ==
    args.fn = "load" => lib.log = <<>>

====
